---- MODULE Spec2Model ----
(***************************************************************************)
(* HandsOnOllama: the retrieval-augmented answer pipeline.                 *)
(*                                                                         *)
(* Spec      the vector store lifecycle: upload_and_process_pdf and        *)
(*           create_or_load_vector_db (vector_db.py), run by several       *)
(*           process instances that share the eggs/ and chroma_db/         *)
(*           directories; each process has its own st.cache_resource memo. *)
(* SpecShell the answer side: rag_streamlit, create_chain, chain.invoke    *)
(*           (multi-query retrieval, prompt, generation) and               *)
(*           process_user_input.                                           *)
(* SpecSplit split_documents: the recursive character splitter applied to  *)
(*           lists of short texts.                                         *)
(* SpecScript the demo script model_test_2 against the Ollama server.      *)
(***************************************************************************)
EXTENDS Integers, Sequences, FiniteSets, TLC

\* two process instances that share eggs/ and chroma_db/
Procs == {"p1", "p2"}
\* Uploaded file names; the file name is also the collection name. The
\* collections of different names share nothing (persist_directory is
\* chroma_db/<name>, the memo key holds the name), so one name is followed.
Names == {"a.pdf"}

\* ---------------------------------------------------------------- values
\* What a path eggs/<name> holds: no file, a file the PDF loader cannot read,
\* a readable PDF with no extractable document, or one of two readable PDFs.
NoFile == "nofile"
Unreadable == "unreadable"
ZeroDocs == "zerodocs"
Pdfs == {"pdfA", "pdfB"}
FileStates == {NoFile, Unreadable, ZeroDocs} \cup Pdfs

\* What chroma_db/<name> holds: no directory, or the directory with the
\* sequence of document sets that were added to the collection.
Absent == "absent"

\* Exception classes the PDF loader can raise on an unreadable file.
LoaderErrors == {"IOError", "ValueError", "OtherError"}

\* model_test_2: MODEL, the base model on the server
MODEL == "llama3.2:1b"
\* model_test_2: CUSTOM_MODEL_NAME
CUSTOM_MODEL_NAME == "astronomy_expert"

None == "None"
Handle == "Chroma"
NoResult == "-"

VARIABLES
    files,       \* files[n]: content of eggs/<n>
    store,       \* store[n]: Absent, or the contents of chroma_db/<n>
    pc,          \* pc[p]: position of process p inside create_or_load_vector_db
    arg,         \* arg[p]: vector_store_name of the running / last call
    data,        \* data[p]: local variable data / chunks of the running call
    cache,       \* cache[p][n]: st.cache_resource memo of process p
    result,      \* result[p]: what the last call returned to its caller
    ingestRet,   \* ingestRet[p]: what ingest_pdf returned in the last call
    did,         \* did[p]: the stages the running / last call has executed
    failed,      \* failed[p]: the stage of the last call that failed, or NoResult
    dirAtStart,  \* dirAtStart[p]: chroma_db/<n> existed when the call began
    afterFirst,  \* afterFirst[p]: an earlier call for the same name and file had returned
    firstDone,   \* firstDone[n]: a call for n with the current file has returned
    bodyRuns,    \* bodyRuns[p][n]: runs of the body for n since process p started
    memoHit      \* memoHit[p]: the last call was answered from the memo

storeVars == <<files, store, pc, arg, data, cache, result,
               ingestRet, did, failed, dirAtStart, afterFirst, firstDone,
               bodyRuns, memoHit>>

\* No create_chain call has been made in this run.
NotBuilt == [module |-> NoResult, retriever |-> NoResult, llm |-> NoResult]

\* One session of the interactive shell (rag_streamlit); every script run
\* handles at most one question.
VARIABLES
    shPc,        \* position of the script run
    vectorDb,    \* what upload_and_process_pdf returned in this run
    built,       \* the module and arguments of this run's create_chain call
    chain,       \* what create_chain produced in this run
    rendered,    \* what the run has shown to the user
    uncaught,    \* the exception that left the script run, or NoResult
    failKind,    \* the exception chain.invoke raised in this run, or NoResult
    failStage,   \* the stage of chain.invoke that raised, or NoResult
    invokes,     \* calls of chain.invoke in this run
    expCalls,    \* query-expansion language-model calls in this run
    genCalls,    \* generation language-model calls in this run
    nVariants,   \* number of query variants the expansion produced
    hits,        \* per-variant result lists of the similarity search so far
    context,     \* the merged Retrieved Context
    retrieved,   \* the retriever has returned in this run
    repeat,      \* this run's question is the one of the previous run
    prev         \* how the last question before this run ended

shellVars == <<shPc, vectorDb, built, chain, rendered, uncaught, failKind, failStage, invokes,
               expCalls, genCalls, nVariants, hits, context, retrieved,
               repeat, prev>>

\* One call of split_documents.
VARIABLES
    splitPc,     \* position of the call: idle, input (called), done (returned)
    documents,   \* the argument: a list of texts (page_content of each document)
    chunks       \* the returned list of chunk texts

splitVars == <<splitPc, documents, chunks>>

\* One run of the demo script model_test_2 against the Ollama server.
VARIABLES
    scPc,        \* the next statement of the script
    models,      \* the models the Ollama server holds
    scEnded,     \* NoResult (running), "completed", or the statement that raised
    scLog,       \* this run's completed operations on the custom model, in order
    streamed,    \* chunks of the chat stream printed so far in this run
    runs         \* the number of this run of the script

scriptVars == <<scPc, models, scEnded, scLog, streamed, runs>>

vars == <<storeVars, shellVars, splitVars, scriptVars>>

\* ------------------------------------------------------- utils.ingest_pdf
\* utils.ingest_pdf: [] when the path does not exist; otherwise whatever the
\* loader returns, and the loader's exception propagates.
ingest_pdf(content, exc) ==
    IF content = NoFile THEN "empty_list"
    ELSE IF content = Unreadable THEN "raise"
    ELSE IF content = ZeroDocs THEN "empty_list"
    ELSE "data"

\* doc_assist.utils.ingest_pdf: as above, but IOError and ValueError of the
\* loader are caught and turned into [].
ingest_pdf_doc_assist(content, exc) ==
    IF content = NoFile THEN "empty_list"
    ELSE IF content = Unreadable
         THEN IF exc \in {"IOError", "ValueError"} THEN "empty_list" ELSE "raise"
    ELSE IF content = ZeroDocs THEN "empty_list"
    ELSE "data"

UtilsModules == {"utils", "doc_assist.utils"}

IngestOutcome(module, content, exc) ==
    IF module = "utils" THEN ingest_pdf(content, exc)
    ELSE ingest_pdf_doc_assist(content, exc)

\* ------------------------------------------------------------------ Init
Init ==
    /\ files = [n \in Names |-> NoFile]
    /\ store = [n \in Names |-> Absent]
    /\ pc = [p \in Procs |-> "idle"]
    /\ arg = [p \in Procs |-> CHOOSE n \in Names : TRUE]
    /\ data = [p \in Procs |-> NoFile]
    /\ cache = [p \in Procs |-> [n \in Names |-> NoResult]]
    /\ result = [p \in Procs |-> NoResult]
    /\ ingestRet = [p \in Procs |-> NoResult]
    /\ did = [p \in Procs |-> {}]
    /\ failed = [p \in Procs |-> NoResult]
    /\ dirAtStart = [p \in Procs |-> FALSE]
    /\ afterFirst = [p \in Procs |-> FALSE]
    /\ firstDone = [n \in Names |-> FALSE]
    /\ bodyRuns = [p \in Procs |-> [n \in Names |-> 0]]
    /\ memoHit = [p \in Procs |-> FALSE]
    /\ shPc = "start"
    /\ vectorDb = NoResult
    /\ built = NotBuilt
    /\ chain = NoResult
    /\ rendered = NoResult
    /\ uncaught = NoResult
    /\ failKind = NoResult
    /\ failStage = NoResult
    /\ invokes = 0
    /\ expCalls = 0
    /\ genCalls = 0
    /\ nVariants = 0
    /\ hits = <<>>
    /\ context = <<>>
    /\ retrieved = FALSE
    /\ repeat = FALSE
    /\ prev = NoResult
    /\ splitPc = "idle"
    /\ documents = <<>>
    /\ chunks = <<>>
    /\ scPc = "list"
    /\ models = {MODEL}
    /\ scEnded = NoResult
    /\ scLog = <<>>
    /\ streamed = 0
    /\ runs = 1

\* ------------------------------------------- create_or_load_vector_db
\* os.path.exists(persist_directory)
PersistDirExists(n) == store[n] # Absent

\* A call of the memoized function (st.cache_resource): a memo hit returns
\* the memoized value without running the body; otherwise the body starts at
\* ollama.pull. seenFirst: an earlier call for n with this file has returned.
EnterCall(p, n, seenFirst) ==
    /\ arg' = [arg EXCEPT ![p] = n]
    /\ ingestRet' = [ingestRet EXCEPT ![p] = NoResult]
    /\ data' = [data EXCEPT ![p] = NoFile]
    /\ did' = [did EXCEPT ![p] = {}]
    /\ failed' = [failed EXCEPT ![p] = NoResult]
    /\ dirAtStart' = [dirAtStart EXCEPT ![p] = (store[n] # Absent)]
    /\ afterFirst' = [afterFirst EXCEPT ![p] = seenFirst]
    /\ UNCHANGED cache
    /\ IF cache[p][n] # NoResult
       THEN /\ result' = [result EXCEPT ![p] = cache[p][n]]
            /\ memoHit' = [memoHit EXCEPT ![p] = TRUE]
            /\ UNCHANGED <<pc, bodyRuns>>
       ELSE /\ pc' = [pc EXCEPT ![p] = "pull"]
            /\ result' = [result EXCEPT ![p] = NoResult]
            /\ memoHit' = [memoHit EXCEPT ![p] = FALSE]
            /\ bodyRuns' = [bodyRuns EXCEPT ![p][n] = @ + 1]

\* Mutant of Return: the failure value None is not memoized.
ReturnSkipsNone(p, v) ==
    /\ pc' = [pc EXCEPT ![p] = "idle"]
    /\ result' = [result EXCEPT ![p] = v]
    /\ cache' = IF v = None THEN cache ELSE [cache EXCEPT ![p][arg[p]] = v]
    /\ firstDone' = [firstDone EXCEPT ![arg[p]] = TRUE]

\* The body returns v: the memo keeps it and the caller receives it.
Return(p, v) ==
    /\ pc' = [pc EXCEPT ![p] = "idle"]
    /\ result' = [result EXCEPT ![p] = v]
    /\ cache' = [cache EXCEPT ![p][arg[p]] = v]
    /\ firstDone' = [firstDone EXCEPT ![arg[p]] = TRUE]

\* Mutant of ReturnOnException: the handler logs and raises again; the
\* exception reaches the caller and nothing is memoized.
ReturnOnExceptionReraises(p, stage) ==
    /\ failed' = [failed EXCEPT ![p] = stage]
    /\ pc' = [pc EXCEPT ![p] = "idle"]
    /\ result' = [result EXCEPT ![p] = "Exception"]
    /\ UNCHANGED <<cache, firstDone>>

\* except Exception: logging.error, st.error, return None
ReturnOnException(p, stage) ==
    /\ failed' = [failed EXCEPT ![p] = stage]
    /\ Return(p, None)

\* A direct call create_or_load_vector_db(eggs/<n>, n).
CreateOrLoadVectorDb(p, n) ==
    /\ pc[p] = "idle"
    /\ EnterCall(p, n, firstDone[n])
    /\ UNCHANGED <<files, store, firstDone>>
    /\ UNCHANGED <<shellVars, splitVars, scriptVars>>

\* ollama.pull(EMBEDDING_MODEL); OllamaEmbeddings(...)
Pull(p) ==
    /\ pc[p] = "pull"
    /\ \E ok \in BOOLEAN :
         IF ok
         THEN /\ pc' = [pc EXCEPT ![p] = "check"]
              /\ did' = [did EXCEPT ![p] = @ \cup {"pull"}]
              /\ UNCHANGED <<result, cache, firstDone, failed>>
         ELSE /\ ReturnOnException(p, "pull")
              /\ UNCHANGED did
    /\ UNCHANGED <<files, store, arg, data, ingestRet,
                   dirAtStart, afterFirst>>
    /\ UNCHANGED <<bodyRuns, memoHit>>
    /\ UNCHANGED <<shellVars, splitVars, scriptVars>>

\* Mutant of CheckExists: the persisted state is not looked at and every
\* body run builds.
CheckExistsAlwaysBuilds(p) ==
    /\ pc[p] = "check"
    /\ pc' = [pc EXCEPT ![p] = "ingest"]
    /\ UNCHANGED <<files, store, arg, data, cache, result,
                   ingestRet, did, failed, dirAtStart, afterFirst, firstDone>>
    /\ UNCHANGED <<bodyRuns, memoHit>>
    /\ UNCHANGED <<shellVars, splitVars, scriptVars>>

\* if os.path.exists(persist_directory): ... else: ...
CheckExists(p) ==
    /\ pc[p] = "check"
    /\ pc' = [pc EXCEPT ![p] = IF PersistDirExists(arg[p]) THEN "load" ELSE "ingest"]
    /\ UNCHANGED <<files, store, arg, data, cache, result,
                   ingestRet, did, failed, dirAtStart, afterFirst, firstDone>>
    /\ UNCHANGED <<bodyRuns, memoHit>>
    /\ UNCHANGED <<shellVars, splitVars, scriptVars>>

\* Mutant of Load: the load branch adds the current source file to the
\* collection again.
LoadRebuilds(p) ==
    /\ pc[p] = "load"
    /\ did' = [did EXCEPT ![p] = @ \cup {"open"}]
    /\ store' = [store EXCEPT ![arg[p]] = Append(@, files[arg[p]])]
    /\ Return(p, Handle)
    /\ UNCHANGED <<files, arg, data, ingestRet, failed, dirAtStart, afterFirst>>
    /\ UNCHANGED <<bodyRuns, memoHit>>
    /\ UNCHANGED <<shellVars, splitVars, scriptVars>>

\* vector_db = Chroma(embedding_function, collection_name, persist_directory);
\* return vector_db. Opening reads the directory and may raise.
Load(p) ==
    /\ pc[p] = "load"
    /\ did' = [did EXCEPT ![p] = @ \cup {"open"}]
    /\ \E ok \in BOOLEAN :
         IF ok
         THEN Return(p, Handle) /\ UNCHANGED failed
         ELSE ReturnOnException(p, "open")
    /\ UNCHANGED <<files, store, arg, data, ingestRet,
                   dirAtStart, afterFirst>>
    /\ UNCHANGED <<bodyRuns, memoHit>>
    /\ UNCHANGED <<shellVars, splitVars, scriptVars>>

\* Mutant of Ingest: the "if not data" test is missing, so an empty list
\* goes on to chunking and embedding.
IngestNoEmptyTest(p) ==
    /\ pc[p] = "ingest"
    /\ did' = [did EXCEPT ![p] = @ \cup {"ingest"}]
    /\ \E module \in UtilsModules, exc \in LoaderErrors :
         LET out == IngestOutcome(module, files[arg[p]], exc) IN
         IF out = "raise"
         THEN /\ ingestRet' = [ingestRet EXCEPT ![p] = "raised"]
              /\ ReturnOnException(p, "ingest")
              /\ UNCHANGED data
         ELSE /\ ingestRet' = [ingestRet EXCEPT ![p] = out]
              /\ data' = [data EXCEPT ![p] = files[arg[p]]]
              /\ pc' = [pc EXCEPT ![p] = "split"]
              /\ UNCHANGED <<result, cache, firstDone, failed>>
    /\ UNCHANGED <<files, store, arg, dirAtStart, afterFirst>>
    /\ UNCHANGED <<bodyRuns, memoHit>>
    /\ UNCHANGED <<shellVars, splitVars, scriptVars>>

\* data = ingest_pdf(file_path); if not data: st.error, return None
Ingest(p) ==
    /\ pc[p] = "ingest"
    /\ did' = [did EXCEPT ![p] = @ \cup {"ingest"}]
    /\ \E module \in UtilsModules, exc \in LoaderErrors :
         LET out == IngestOutcome(module, files[arg[p]], exc) IN
         CASE out = "raise" ->
                /\ ingestRet' = [ingestRet EXCEPT ![p] = "raised"]
                /\ ReturnOnException(p, "ingest")
                /\ UNCHANGED data
           [] out = "empty_list" ->
                /\ ingestRet' = [ingestRet EXCEPT ![p] = "empty_list"]
                /\ failed' = [failed EXCEPT ![p] = "ingest"]
                /\ Return(p, None)
                /\ UNCHANGED data
           [] out = "data" ->
                /\ ingestRet' = [ingestRet EXCEPT ![p] = "data"]
                /\ data' = [data EXCEPT ![p] = files[arg[p]]]
                /\ pc' = [pc EXCEPT ![p] = "split"]
                /\ UNCHANGED <<result, cache, firstDone, failed>>
    /\ UNCHANGED <<files, store, arg, dirAtStart, afterFirst>>
    /\ UNCHANGED <<bodyRuns, memoHit>>
    /\ UNCHANGED <<shellVars, splitVars, scriptVars>>

\* chunks = split_documents(data)
Split(p) ==
    /\ pc[p] = "split"
    /\ did' = [did EXCEPT ![p] = @ \cup {"split"}]
    /\ pc' = [pc EXCEPT ![p] = "from_documents"]
    /\ UNCHANGED <<files, store, arg, data, cache, result,
                   ingestRet, failed, dirAtStart, afterFirst, firstDone>>
    /\ UNCHANGED <<bodyRuns, memoHit>>
    /\ UNCHANGED <<shellVars, splitVars, scriptVars>>

\* What chroma_db/<n> holds after Chroma.from_documents raised: the code
\* removes nothing, so a directory the client had already created stays,
\* holding an incomplete (here: empty) collection.
AfterFailedBuild(dir) == IF dir = Absent THEN {Absent, <<>>} ELSE {dir}

\* vector_db = Chroma.from_documents(chunks, embedding, collection_name,
\* persist_directory): opens (creating) the directory, embeds every chunk
\* through the embedding provider and adds the chunks to the collection.
FromDocuments(p) ==
    /\ pc[p] = "from_documents"
    /\ \E ok \in BOOLEAN :
         IF ok
         THEN /\ store' = [store EXCEPT ![arg[p]] =
                    IF @ = Absent THEN <<data[p]>> ELSE Append(@, data[p])]
              /\ did' = [did EXCEPT ![p] = @ \cup {"embed", "write"}]
              /\ pc' = [pc EXCEPT ![p] = "persist"]
              /\ UNCHANGED <<result, cache, firstDone, failed>>
         ELSE /\ \E left \in AfterFailedBuild(store[arg[p]]) :
                   /\ store' = [store EXCEPT ![arg[p]] = left]
                   /\ did' = [did EXCEPT ![p] =
                         @ \cup {"embed"} \cup
                         (IF left # store[arg[p]] THEN {"write"} ELSE {})]
              /\ ReturnOnException(p, "embed")
    /\ UNCHANGED <<files, arg, data, ingestRet, dirAtStart,
                   afterFirst>>
    /\ UNCHANGED <<bodyRuns, memoHit>>
    /\ UNCHANGED <<shellVars, splitVars, scriptVars>>

\* vector_db.persist(); return vector_db
Persist(p) ==
    /\ pc[p] = "persist"
    /\ did' = [did EXCEPT ![p] = @ \cup {"persist"}]
    /\ \E ok \in BOOLEAN :
         IF ok
         THEN Return(p, Handle) /\ UNCHANGED failed
         ELSE ReturnOnException(p, "persist")
    /\ UNCHANGED <<files, store, arg, data, ingestRet,
                   dirAtStart, afterFirst>>
    /\ UNCHANGED <<bodyRuns, memoHit>>
    /\ UNCHANGED <<shellVars, splitVars, scriptVars>>

\* ------------------------------------------------ upload_and_process_pdf
\* The user uploads content c under file name n: the file is written to
\* eggs/<n> (replacing what was there) and create_or_load_vector_db is called.
UploadAndProcessPdf(p, n, c) ==
    /\ pc[p] = "idle"
    /\ c # NoFile
    /\ files' = [files EXCEPT ![n] = c]
    /\ EnterCall(p, n, firstDone[n] /\ files[n] = c)
    /\ firstDone' = [firstDone EXCEPT ![n] = @ /\ files[n] = c]
    /\ UNCHANGED <<store>>
    /\ UNCHANGED <<shellVars, splitVars, scriptVars>>

\* What does not belong to a call of create_or_load_vector_db is reset.
NoCall(p) ==
    /\ ingestRet' = [ingestRet EXCEPT ![p] = NoResult]
    /\ data' = [data EXCEPT ![p] = NoFile]
    /\ did' = [did EXCEPT ![p] = {}]
    /\ failed' = [failed EXCEPT ![p] = NoResult]
    /\ dirAtStart' = [dirAtStart EXCEPT ![p] = FALSE]
    /\ afterFirst' = [afterFirst EXCEPT ![p] = FALSE]
    /\ memoHit' = [memoHit EXCEPT ![p] = FALSE]

\* uploaded_file is None: return None
UploadNothing(p) ==
    /\ pc[p] = "idle"
    /\ result' = [result EXCEPT ![p] = None]
    /\ NoCall(p)
    /\ UNCHANGED <<files, store, pc, arg, cache, firstDone>>
    /\ UNCHANGED bodyRuns
    /\ UNCHANGED <<shellVars, splitVars, scriptVars>>

\* makedirs / open / write raises OSError: logged, st.error, return None.
\* The file may have been truncated by open(file_path, "wb").
UploadOSError(p, n) ==
    /\ pc[p] = "idle"
    /\ \E c \in {files[n], Unreadable} :
         /\ files' = [files EXCEPT ![n] = c]
         /\ firstDone' = [firstDone EXCEPT ![n] = @ /\ files[n] = c]
    /\ result' = [result EXCEPT ![p] = None]
    /\ NoCall(p)
    /\ UNCHANGED <<store, pc, arg, cache>>
    /\ UNCHANGED bodyRuns
    /\ UNCHANGED <<shellVars, splitVars, scriptVars>>

\* The process is restarted: its st.cache_resource memo is empty again.
Restart(p) ==
    /\ pc[p] = "idle"
    /\ cache' = [cache EXCEPT ![p] = [n \in Names |-> NoResult]]
    /\ result' = [result EXCEPT ![p] = NoResult]
    /\ bodyRuns' = [bodyRuns EXCEPT ![p] = [n \in Names |-> 0]]
    /\ NoCall(p)
    /\ UNCHANGED <<files, store, pc, arg, firstDone>>
    /\ UNCHANGED <<shellVars, splitVars, scriptVars>>

Next ==
    \/ \E p \in Procs, n \in Names : CreateOrLoadVectorDb(p, n)
    \/ \E p \in Procs, n \in Names, c \in FileStates : UploadAndProcessPdf(p, n, c)
    \/ \E p \in Procs : UploadNothing(p)
    \/ \E p \in Procs, n \in Names : UploadOSError(p, n)
    \/ \E p \in Procs : Pull(p)
    \/ \E p \in Procs : CheckExists(p)
    \/ \E p \in Procs : Load(p)
    \/ \E p \in Procs : Ingest(p)
    \/ \E p \in Procs : Split(p)
    \/ \E p \in Procs : FromDocuments(p)
    \/ \E p \in Procs : Persist(p)
    \/ \E p \in Procs : Restart(p)

Spec == Init /\ [][Next]_vars

\* ------------------------------------------------- vector store: claims
BuildStages == {"ingest", "split", "embed", "write", "persist"}
BuildPcs == {"ingest", "split", "from_documents", "persist"}

\* C1 as stated: in a sequence of calls with the same collection name and
\* the same source file, only the first call ingests, chunks and embeds:
\* a call that begins after an earlier one has returned never reaches the
\* build branch.
C1_OnlyFirstCallBuilds ==
    \A p \in Procs :
        afterFirst[p] =>
            /\ did[p] \cap BuildStages = {}
            /\ pc[p] \notin BuildPcs

\* C1 amended: once the persist directory of a collection name exists, a
\* later call for that name never ingests, chunks or embeds: its body takes
\* the load branch, and returns the opened handle when ollama.pull and the
\* opening of the collection succeed.
C1_NoReworkOncePersisted ==
    \A p \in Procs :
        dirAtStart[p] =>
            /\ did[p] \subseteq {"pull", "open"}
            /\ pc[p] \in {"idle", "pull", "check", "load"}
            /\ (pc[p] = "idle" /\ "open" \in did[p] /\ failed[p] = NoResult
                    => result[p] = Handle)

\* A call that began after an earlier call for the same file had returned
\* found the collection built from that file, opened it and returned the
\* handle.
C1_Witness ==
    \E p \in Procs :
        /\ afterFirst[p] /\ dirAtStart[p]
        /\ store[arg[p]] = <<files[arg[p]]>>
        /\ pc[p] = "idle" /\ "open" \in did[p] /\ result[p] = Handle

\* C2 as stated: a build that fails in ingestion or in embedding leaves no
\* persist directory behind: after such a call for a name that had no
\* persisted state, chroma_db/<name> does not exist (unless another call
\* created it).
C2_NoPartialCollection ==
    \A p \in Procs :
        (pc[p] = "idle" /\ failed[p] \in {"ingest", "embed"} /\ ~dirAtStart[p])
            => (store[arg[p]] = Absent \/ "write" \notin did[p])

\* C3: Absent -> Built -> Loaded. A persist directory never disappears, and
\* an existing collection is changed only by a call that began before the
\* directory existed: no later call rebuilds or modifies it, whatever the
\* file at the source path has become.
C3_BuiltIsTerminal ==
    [][\A n \in Names :
          store[n] # Absent =>
              /\ store'[n] # Absent
              /\ (store'[n] # store[n] =>
                    \E p \in Procs :
                        arg[p] = n /\ pc[p] = "from_documents" /\ ~dirAtStart[p])]_vars

\* One process built the collection from one PDF; the file was replaced by
\* another PDF; a later call of the other process loaded the old collection.
C3_Witness ==
    \E p, q \in Procs :
        /\ p # q /\ arg[p] = arg[q]
        /\ pc[q] = "idle" /\ "write" \in did[q] /\ result[q] = Handle
        /\ pc[p] = "idle" /\ dirAtStart[p] /\ "open" \in did[p] /\ result[p] = Handle
        /\ store[arg[p]] = <<data[q]>>
        /\ files[arg[p]] \in Pdfs \ {data[q]}

\* C4: when ingest_pdf fails (it returns [] or raises), the call returns None
\* at once: no chunking, no embedding, nothing written to chroma_db/<name>.
C4_IngestionFailureAborts ==
    \A p \in Procs :
        ingestRet[p] \in {"empty_list", "raised"} =>
            /\ pc[p] = "idle"
            /\ result[p] = None
            /\ failed[p] = "ingest"
            /\ did[p] \cap {"split", "embed", "write", "persist"} = {}

\* The path did not exist, ingestion failed and no directory was created.
C4_Witness ==
    \E p \in Procs :
        /\ ingestRet[p] = "empty_list" /\ result[p] = None
        /\ files[arg[p]] = NoFile /\ store[arg[p]] = Absent

\* C6 as stated: a vector store is created at most once per collection
\* name, for every interleaving of two processes: at most one of them
\* writes the collection, which receives its documents once.
C6_CreatedAtMostOnce ==
    /\ \A p, q \in Procs :
          (p # q /\ arg[p] = arg[q]) => ~("write" \in did[p] /\ "write" \in did[q])
    /\ \A n \in Names : store[n] # Absent => Len(store[n]) <= 1

\* C7 as stated: a failure is never turned into an ordinary return value:
\* a call in which a stage failed does not return None, and ingest_pdf does
\* not answer a failure with an empty list.
C7_FailuresAreRaised ==
    \A p \in Procs :
        failed[p] # NoResult =>
            /\ result[p] # None
            /\ ingestRet[p] # "empty_list"

\* C13 as stated: ollama.pull is attempted before the persisted-state check
\* in every execution, and the pull is safe to make unconditionally: a call
\* whose body ran when chroma_db/<name> held a built collection returns the
\* loaded handle whether or not the pull succeeded (unless opening the
\* collection failed).
C13_PullSafeBeforeLoad ==
    \A p \in Procs :
        /\ pc[p] \in {"check", "load"} \cup BuildPcs => "pull" \in did[p]
        /\ (/\ pc[p] = "idle" /\ dirAtStart[p] /\ ~memoHit[p]
            /\ Len(store[arg[p]]) >= 1
            /\ failed[p] # "open")
              => result[p] = Handle

\* C14: within one process the body runs at most once per (file_path,
\* vector_store_name): what the body returned, the failure value None
\* included, is memoized, and every later call returns the memoized value
\* without running any stage of the body.
C14_BodyRunsOncePerKey ==
    \A p \in Procs :
        /\ \A n \in Names :
              /\ bodyRuns[p][n] <= 1
              /\ (bodyRuns[p][n] = 1 /\ ~(pc[p] # "idle" /\ arg[p] = n))
                    => cache[p][n] \in {None, Handle}
        /\ memoHit[p] =>
              /\ pc[p] = "idle" /\ did[p] = {}
              /\ result[p] = cache[p][arg[p]]
              /\ result[p] \in {None, Handle}

\* A build failed and None was memoized; a readable PDF was then uploaded
\* under the same name, and the call returned the memoized None: nothing
\* was built.
C14_Witness ==
    \E p \in Procs :
        /\ memoHit[p] /\ result[p] = None
        /\ bodyRuns[p][arg[p]] = 1
        /\ files[arg[p]] \in Pdfs /\ store[arg[p]] = Absent

MaxVariants == 2
\* most chunks one similarity search returns
TopK == 2

\* the chunks of the collection
Chunks == {"c1", "c2", "c3"}

\* ---------------------------------------------------------- create_chain
Null == "null"
Capabilities == {Null, "object"}

\* doc_assist.chain.create_chain: both arguments are validated, then the
\* pipeline {context: retriever, question: passthrough} | prompt | llm |
\* parser is composed. Composition calls neither the retriever nor the model.
create_chain(retriever, llm) ==
    IF retriever = Null THEN "ValueError"
    ELSE IF llm = Null THEN "ValueError"
    ELSE "chain"

\* chain.create_chain: no validation; the pipeline is composed at once, and
\* composing it with None in place of a runnable raises TypeError.
create_chain_legacy(retriever, llm) ==
    IF retriever = Null \/ llm = Null THEN "TypeError" ELSE "chain"

ChainModules == {"doc_assist.chain", "chain"}

CreateChainOutcome(module, retriever, llm) ==
    IF module = "doc_assist.chain" THEN create_chain(retriever, llm)
    ELSE create_chain_legacy(retriever, llm)

\* ------------------------------------------------------ create_retriever
\* The result lists one similarity search can return.
ResultLists == UNION {[1..k -> Chunks] : k \in 0..TopK}

RECURSIVE Flatten(_)
\* MultiQueryRetriever.retrieve_documents: the result lists of the variants,
\* one after the other.
Flatten(lists) ==
    IF lists = <<>> THEN <<>> ELSE Head(lists) \o Flatten(Tail(lists))

\* Mutant of unique_union: the merged list keeps every occurrence.
unique_union_keeps_all(docs) == docs

RECURSIVE unique_union(_)
\* MultiQueryRetriever.unique_union: a document is kept where it is first
\* seen and dropped wherever it occurs again.
unique_union(docs) ==
    IF docs = <<>> THEN <<>>
    ELSE LET n == Len(docs)
             front == SubSeq(docs, 1, n - 1)
         IN IF \E i \in 1..(n - 1) : docs[i] = docs[n]
            THEN unique_union(front)
            ELSE Append(unique_union(front), docs[n])

\* ---------------------------------------------------- process_user_input
\* Exception classes a language-model call or a vector search can raise.
ExcKinds == {"ValueError", "RuntimeError", "KeyError", "FileNotFoundError",
             "ConnectionError", "ResponseError"}

\* except (ValueError, RuntimeError, KeyError, FileNotFoundError)
CaughtKinds == {"ValueError", "RuntimeError", "KeyError", "FileNotFoundError"}

\* chain.invoke raised kind at stage: process_user_input renders an error
\* when its except clause names the kind; any other exception leaves
\* process_user_input and rag_streamlit, and ends the script run.
InvokeRaises(stage, kind) ==
    /\ failKind' = kind
    /\ failStage' = stage
    /\ shPc' = "done"
    /\ IF kind \in CaughtKinds
       THEN rendered' = "error" /\ UNCHANGED uncaught
       ELSE uncaught' = kind /\ UNCHANGED rendered

\* Mutant of RagStreamlitUpload: the result is not tested and the run goes
\* on to initialize_llm_and_vector_db.
RagStreamlitUploadUnchecked(v) ==
    /\ shPc = "start"
    /\ vectorDb' = v
    /\ shPc' = "init"
    /\ UNCHANGED <<built, chain, rendered, uncaught, failKind, failStage, invokes,
                   expCalls, genCalls, nVariants, hits, context, retrieved,
                   repeat, prev>>
    /\ UNCHANGED <<storeVars, splitVars, scriptVars>>

\* rag_streamlit: vector_db = upload_and_process_pdf(); if vector_db is None:
\* st.error(...), return. v is what upload_and_process_pdf returned: None (no
\* file uploaded, OSError while saving, create_or_load_vector_db returned
\* None) or the handle.
RagStreamlitUpload(v) ==
    /\ shPc = "start"
    /\ vectorDb' = v
    /\ IF v = None
       THEN rendered' = "error" /\ shPc' = "done"
       ELSE shPc' = "init" /\ UNCHANGED rendered
    /\ UNCHANGED <<built, chain, uncaught, failKind, failStage, invokes,
                   expCalls, genCalls, nVariants, hits, context, retrieved,
                   repeat, prev>>
    /\ UNCHANGED <<storeVars, splitVars, scriptVars>>

\* initialize_llm_and_vector_db, or any other caller of create_chain: the
\* chain is constructed from a retriever and a language model. An exception
\* of create_chain is caught nowhere.
InitializeChain(module, retriever, llm) ==
    /\ shPc = "init"
    /\ built' = [module |-> module, retriever |-> retriever, llm |-> llm]
    /\ LET out == CreateChainOutcome(module, retriever, llm) IN
         IF out = "chain"
         THEN /\ chain' = "chain"
              /\ shPc' = "ready"
              /\ UNCHANGED uncaught
         ELSE /\ chain' = NoResult
              /\ uncaught' = out
              /\ shPc' = "done"
    /\ UNCHANGED <<rendered, failKind, failStage, invokes, expCalls, genCalls,
                   nVariants, hits, context, retrieved, repeat, prev>>
    /\ UNCHANGED vectorDb
    /\ UNCHANGED <<storeVars, splitVars, scriptVars>>

\* st.sidebar.button("Stop App") / ("Close App"): st.warning, st.stop()
StopApp ==
    /\ shPc = "ready"
    /\ rendered' = "warning"
    /\ shPc' = "done"
    /\ UNCHANGED <<built, chain, uncaught, failKind, failStage, invokes, expCalls,
                   genCalls, nVariants, hits, context, retrieved, repeat, prev>>
    /\ UNCHANGED vectorDb
    /\ UNCHANGED <<storeVars, splitVars, scriptVars>>

\* user_input is empty: st.info("Please enter a question to get started.")
NoQuestion ==
    /\ shPc = "ready"
    /\ rendered' = "info"
    /\ shPc' = "done"
    /\ UNCHANGED <<built, chain, uncaught, failKind, failStage, invokes, expCalls,
                   genCalls, nVariants, hits, context, retrieved, repeat, prev>>
    /\ UNCHANGED vectorDb
    /\ UNCHANGED <<storeVars, splitVars, scriptVars>>

\* Mutant of ProcessUserInput: the answer to the previous question is kept
\* and shown again when the same question comes.
ProcessUserInputCached(same) ==
    /\ shPc = "ready"
    /\ same => prev # NoResult
    /\ repeat' = same
    /\ invokes' = invokes + 1
    /\ IF same /\ prev = "answered"
       THEN rendered' = "answer" /\ shPc' = "done"
       ELSE shPc' = "expand" /\ UNCHANGED rendered
    /\ UNCHANGED <<built, chain, uncaught, failKind, failStage, expCalls,
                   genCalls, nVariants, hits, context, retrieved, prev>>
    /\ UNCHANGED vectorDb
    /\ UNCHANGED <<storeVars, splitVars, scriptVars>>

\* process_user_input(user_input, chain): response = chain.invoke(user_input),
\* called once. same: the question is the one asked before.
ProcessUserInput(same) ==
    /\ shPc = "ready"
    /\ same => prev # NoResult
    /\ repeat' = same
    /\ invokes' = invokes + 1
    /\ shPc' = "expand"
    /\ UNCHANGED <<built, chain, rendered, uncaught, failKind, failStage, expCalls,
                   genCalls, nVariants, hits, context, retrieved, prev>>
    /\ UNCHANGED vectorDb
    /\ UNCHANGED <<storeVars, splitVars, scriptVars>>

\* The retriever asks the language model for alternative questions and
\* splits its text into lines: one call, which raises or returns up to
\* MaxVariants variants (none included).
GenerateQueries ==
    /\ shPc = "expand"
    /\ expCalls' = expCalls + 1
    /\ \/ \E kind \in ExcKinds :
            /\ InvokeRaises("expand", kind)
            /\ UNCHANGED <<nVariants, context, retrieved>>
       \/ \E n \in 0..MaxVariants :
            /\ nVariants' = n
            /\ IF n = 0
               THEN /\ context' = unique_union(Flatten(hits))
                    /\ retrieved' = TRUE
                    /\ shPc' = "generate"
               ELSE /\ shPc' = "search"
                    /\ UNCHANGED <<context, retrieved>>
            /\ UNCHANGED <<rendered, uncaught, failKind, failStage>>
    /\ UNCHANGED <<built, chain, invokes, genCalls, hits, repeat, prev>>
    /\ UNCHANGED vectorDb
    /\ UNCHANGED <<storeVars, splitVars, scriptVars>>

\* The similarity search of the next variant raises or returns its result
\* list; after the last variant the lists are merged by unique_union.
SimilaritySearch ==
    /\ shPc = "search"
    /\ \/ \E kind \in ExcKinds :
            /\ InvokeRaises("search", kind)
            /\ UNCHANGED <<hits, context, retrieved>>
       \/ \E res \in ResultLists :
            /\ hits' = Append(hits, res)
            /\ IF Len(hits') = nVariants
               THEN /\ context' = unique_union(Flatten(hits'))
                    /\ retrieved' = TRUE
                    /\ shPc' = "generate"
               ELSE UNCHANGED <<context, retrieved, shPc>>
            /\ UNCHANGED <<rendered, uncaught, failKind, failStage>>
    /\ UNCHANGED <<built, chain, invokes, expCalls, genCalls, nVariants, repeat, prev>>
    /\ UNCHANGED vectorDb
    /\ UNCHANGED <<storeVars, splitVars, scriptVars>>

\* Mutant of format_prompt: an empty context is taken for a missing
\* template variable.
format_prompt_needs_context(ctx) ==
    IF ctx = <<>> THEN "KeyError" ELSE "prompt"

\* ChatPromptTemplate.from_template(template) applied to {"context": the
\* retriever's list, "question": the input}: both placeholders of the
\* template are supplied, and {context} is replaced by the text of the list,
\* whatever it holds; an empty list is substituted like any other.
format_prompt(ctx) ==
    IF \A i \in 1..Len(ctx) : ctx[i] \in Chunks THEN "prompt" ELSE "KeyError"

\* prompt | llm | StrOutputParser(): the template is filled with the context
\* (empty or not) and the question, and the language model is called once;
\* st.markdown, st.write(response). The retriever's result lists are gone
\* once the prompt is filled.
Generate ==
    /\ shPc = "generate"
    /\ hits' = <<>>
    /\ LET filled == format_prompt(context) IN
         IF filled # "prompt"
         THEN /\ InvokeRaises("prompt", filled)
              /\ UNCHANGED genCalls
         ELSE /\ genCalls' = genCalls + 1
              /\ \/ \E kind \in ExcKinds : InvokeRaises("generate", kind)
                 \/ /\ rendered' = "answer"
                    /\ shPc' = "done"
                    /\ UNCHANGED <<uncaught, failKind, failStage>>
    /\ UNCHANGED <<built, chain, invokes, expCalls, nVariants, context,
                   retrieved, repeat, prev>>
    /\ UNCHANGED vectorDb
    /\ UNCHANGED <<storeVars, splitVars, scriptVars>>

\* The host runs the script again for the next input, also after an
\* exception has left the previous run.
NextRun ==
    /\ shPc = "done"
    /\ shPc' = "start"
    /\ vectorDb' = NoResult
    /\ prev' = IF invokes = 0 THEN prev
               ELSE IF rendered = "answer" THEN "answered" ELSE "failed"
    /\ built' = NotBuilt
    /\ chain' = NoResult
    /\ rendered' = NoResult
    /\ uncaught' = NoResult
    /\ failKind' = NoResult
    /\ failStage' = NoResult
    /\ invokes' = 0
    /\ expCalls' = 0
    /\ genCalls' = 0
    /\ nVariants' = 0
    /\ hits' = <<>>
    /\ context' = <<>>
    /\ retrieved' = FALSE
    /\ repeat' = FALSE
    /\ UNCHANGED <<storeVars, splitVars, scriptVars>>

NextShell ==
    \/ \E v \in {None, Handle} : RagStreamlitUpload(v)
    \/ \E m \in ChainModules, r \in Capabilities, l \in Capabilities :
          InitializeChain(m, r, l)
    \/ StopApp
    \/ NoQuestion
    \/ \E same \in BOOLEAN : ProcessUserInput(same)
    \/ GenerateQueries
    \/ SimilaritySearch
    \/ Generate
    \/ NextRun

SpecShell == Init /\ [][NextShell]_vars

\* --------------------------------------------------------- shell: claims
\* C5 as stated: create_chain with a null retriever or a null language
\* model fails with a validation error at construction, returns no chain
\* and makes no language-model call.
C5_NullCapabilityRejected ==
    (built.retriever = Null \/ built.llm = Null) =>
        /\ uncaught = "ValueError"
        /\ chain = NoResult
        /\ shPc = "done"
        /\ expCalls = 0 /\ genCalls = 0

\* C8 as stated: whatever exception chain.invoke raises, the chain was
\* invoked once for the question, process_user_input renders an error, and
\* no exception leaves the run.
C8_FailedQuestionHandled ==
    failKind # NoResult =>
        /\ invokes = 1
        /\ rendered = "error"
        /\ uncaught = NoResult

\* C9 as stated: every call of chain.invoke makes exactly one query-expansion
\* call and exactly one generation call.
C9_OneExpansionOneGeneration ==
    (shPc = "done" /\ invokes > 0) => (expCalls = 1 /\ genCalls = 1)

\* C9 amended: no retry and no answer cache. A question is given to
\* chain.invoke once; the invocation makes exactly one query-expansion call
\* and at most one generation call: exactly one when retrieval succeeds
\* (every answer shown comes from a generation call of its own run), none
\* when the expansion call or a similarity search raises.
C9_FreshRunNoRetry ==
    /\ invokes <= 1 /\ expCalls <= 1 /\ genCalls <= 1
    /\ (shPc = "done" /\ invokes = 1) =>
          /\ expCalls = 1
          /\ genCalls = (IF failStage \in {"expand", "search"} THEN 0 ELSE 1)
    /\ rendered = "answer" => (expCalls = 1 /\ genCalls = 1)

\* The question of the previous run, which was answered, has been asked
\* again and answered again through calls of its own.
C9_Witness ==
    /\ repeat /\ prev = "answered"
    /\ rendered = "answer" /\ expCalls = 1 /\ genCalls = 1

Occurrences(docs, c) == Cardinality({i \in 1..Len(docs) : docs[i] = c})

ReturnedBy(lists, c) ==
    {i \in 1..Len(lists) : \E j \in 1..Len(lists[i]) : lists[i][j] = c}

\* C10: when the retriever returns, every chunk that some variant's search
\* returned occurs exactly once in the merged Retrieved Context, however
\* many variants returned it, and no other chunk occurs.
C10_MergedContextDeduplicated ==
    (retrieved /\ shPc = "generate") =>
        \A c \in Chunks :
            Occurrences(context, c) = (IF ReturnedBy(hits, c) # {} THEN 1 ELSE 0)

\* Two variants returned the same chunk and the lists were merged.
C10_Witness ==
    /\ retrieved /\ shPc = "generate"
    /\ \E c \in Chunks : Cardinality(ReturnedBy(hits, c)) >= 2
\* C12: a question for which retrieval returns no chunk still reaches the
\* Answer Chain: the template is filled with the empty context without
\* error, the generation call is made exactly once, and when it returns its
\* text is shown.
C12_EmptyContextAnswered ==
    (shPc = "done" /\ retrieved /\ context = <<>>) =>
        /\ failStage # "prompt"
        /\ genCalls = 1
        /\ (failStage = NoResult => rendered = "answer")

\* The expansion gave variants, every similarity search returned no chunk,
\* and the question was answered from the empty context.
C12_Witness ==
    /\ shPc = "done" /\ retrieved /\ context = <<>>
    /\ nVariants > 0
    /\ genCalls = 1 /\ rendered = "answer"

\* C16: when upload_and_process_pdf returns None, an error is shown and the
\* run ends before the language model, the retriever and the chain are
\* created: no question is read and no language-model or vector-search call
\* is made in that run.
C16_NoVectorDbNoChain ==
    vectorDb = None =>
        /\ shPc = "done"
        /\ rendered = "error"
        /\ uncaught = NoResult
        /\ built = NotBuilt /\ chain = NoResult
        /\ invokes = 0 /\ expCalls = 0 /\ genCalls = 0
        /\ hits = <<>> /\ ~retrieved

\* After a run that answered a question, the upload of the next run gave no
\* vector database and the run ended with the error.
C16_Witness ==
    /\ vectorDb = None /\ shPc = "done" /\ rendered = "error"
    /\ prev = "answered"

\* ------------------------------------------------------ split_documents
\* RecursiveCharacterTextSplitter(chunk_size=1200, chunk_overlap=300), with
\* the sizes scaled down 300:1 (the ratio 4:1 is kept) so that texts of a few
\* characters are shorter than, as long as and longer than a chunk.
chunk_size == 4
chunk_overlap == 1
\* longest input text
MaxLen == 6

\* A text is a sequence of characters: a letter, a blank, a line break.
Chars == {"a", " ", "\n"}
Whitespace == {" ", "\n"}
Texts == UNION {[1..k -> Chars] : k \in 0..MaxLen}

\* The document lists split_documents is called with: none, one document,
\* or one document followed by a second one (blank, short, or long).
SecondTexts == {<<>>, <<" ">>, <<"a">>, <<"a", " ", "a", "a", "\n", "a">>}
DocumentLists ==
    {<<>>} \cup {<<t>> : t \in Texts}
           \cup {<<t, u>> : t \in Texts, u \in SecondTexts}

\* the splitter's default separators: "\n\n", "\n", " ", ""
Separators == << <<"\n", "\n">>, <<"\n">>, <<" ">>, <<>> >>

RECURSIVE Concat(_)
\* "".join(parts)
Concat(parts) ==
    IF parts = <<>> THEN <<>> ELSE Head(parts) \o Concat(Tail(parts))

\* str.strip(): leading and trailing whitespace removed
strip(text) ==
    LET inked == {i \in 1..Len(text) : text[i] \notin Whitespace} IN
    IF inked = {} THEN <<>>
    ELSE SubSeq(text, CHOOSE i \in inked : \A j \in inked : i <= j,
                      CHOOSE i \in inked : \A j \in inked : i >= j)

OccursAt(text, sep, i) ==
    /\ i + Len(sep) - 1 <= Len(text)
    /\ SubSeq(text, i, i + Len(sep) - 1) = sep

\* re.search(separator, text)
Contains(text, sep) == \E i \in 1..Len(text) : OccursAt(text, sep, i)

RECURSIVE Cut(_, _, _, _)
\* re.split("(sep)", text) with every separator joined to the piece that
\* follows it: the piece that began at start is cut at the next occurrence
\* of sep found from position i on.
Cut(text, sep, i, start) ==
    IF i > Len(text) THEN <<SubSeq(text, start, Len(text))>>
    ELSE IF OccursAt(text, sep, i)
         THEN <<SubSeq(text, start, i - 1)>> \o Cut(text, sep, i + Len(sep), i)
         ELSE Cut(text, sep, i + 1, start)

\* _split_text_with_regex(text, separator, keep_separator=True): the pieces,
\* the empty ones dropped; the empty separator cuts between all characters.
split_text_with_regex(text, sep) ==
    LET parts == IF sep = <<>> THEN [i \in 1..Len(text) |-> <<text[i]>>]
                 ELSE Cut(text, sep, 1, 1)
    IN SelectSeq(parts, LAMBDA s : s # <<>>)

\* TextSplitter._join_docs(docs, ""): the joined and stripped text as a list
\* of one chunk, or of none when nothing but whitespace is left.
join_docs(docs) ==
    LET text == strip(Concat(docs)) IN
    IF text = <<>> THEN <<>> ELSE <<text>>

RECURSIVE Pop(_, _, _)
\* the while loop of _merge_splits: pieces are dropped from the front of
\* current_doc until what is kept fits the overlap and leaves room for len.
Pop(current_doc, total, len) ==
    IF total > chunk_overlap \/ (total + len > chunk_size /\ total > 0)
    THEN Pop(Tail(current_doc), total - Len(Head(current_doc)), len)
    ELSE [doc |-> current_doc, total |-> total]

RECURSIVE MergeLoop(_, _, _, _, _)
\* the for loop of _merge_splits from piece i on (the separator is "")
MergeLoop(splits, i, current_doc, total, docs) ==
    IF i > Len(splits) THEN docs \o join_docs(current_doc)
    ELSE LET d == splits[i]
             len == Len(d)
         IN IF total + len > chunk_size /\ current_doc # <<>>
            THEN LET kept == Pop(current_doc, total, len) IN
                 MergeLoop(splits, i + 1, Append(kept.doc, d), kept.total + len,
                           docs \o join_docs(current_doc))
            ELSE MergeLoop(splits, i + 1, Append(current_doc, d), total + len, docs)

\* Mutant of merge_splits: the size test is missing and all pieces are
\* joined into one chunk.
merge_splits_unbounded(splits) == join_docs(splits)

\* TextSplitter._merge_splits(splits, ""): small pieces are packed into
\* chunks of at most chunk_size characters, consecutive chunks sharing up to
\* chunk_overlap characters.
merge_splits(splits) == MergeLoop(splits, 1, <<>>, 0, <<>>)

RECURSIVE split_text(_, _)
RECURSIVE SplitLoop(_, _, _, _, _)
\* RecursiveCharacterTextSplitter._split_text(text, separators): the text is
\* cut at the first separator it contains; pieces shorter than chunk_size
\* are merged, the others are split again with the remaining separators.
split_text(text, separators) ==
    LET found == {k \in 1..Len(separators) :
                    separators[k] = <<>> \/ Contains(text, separators[k])}
        i == IF found = {} THEN Len(separators)
             ELSE CHOOSE k \in found : \A j \in found : k <= j
        separator == separators[i]
        new_separators == IF found = {} \/ separator = <<>> THEN <<>>
                          ELSE SubSeq(separators, i + 1, Len(separators))
    IN SplitLoop(split_text_with_regex(text, separator), 1, <<>>, <<>>,
                 new_separators)

\* the for loop of _split_text from piece i on
SplitLoop(splits, i, good_splits, final_chunks, new_separators) ==
    LET merged == IF good_splits # <<>> THEN merge_splits(good_splits) ELSE <<>> IN
    IF i > Len(splits) THEN final_chunks \o merged
    ELSE LET s == splits[i] IN
         IF Len(s) < chunk_size
         THEN SplitLoop(splits, i + 1, Append(good_splits, s), final_chunks,
                        new_separators)
         ELSE LET other_info == IF new_separators = <<>> THEN <<s>>
                                ELSE split_text(s, new_separators)
              IN SplitLoop(splits, i + 1, <<>>, final_chunks \o merged \o other_info,
                           new_separators)

\* utils.split_documents(documents): every document's text is split on its
\* own and the chunks are returned in document order.
split_documents(docs) ==
    Concat([i \in 1..Len(docs) |-> split_text(docs[i], Separators)])

\* A caller passes a list of documents to split_documents.
ReceiveDocuments ==
    /\ splitPc = "idle"
    /\ \E docs \in DocumentLists : documents' = docs
    /\ splitPc' = "input"
    /\ UNCHANGED chunks
    /\ UNCHANGED <<storeVars, shellVars, scriptVars>>

\* chunks = text_splitter.split_documents(documents); return chunks
SplitDocuments ==
    /\ splitPc = "input"
    /\ chunks' = split_documents(documents)
    /\ splitPc' = "done"
    /\ UNCHANGED documents
    /\ UNCHANGED <<storeVars, shellVars, scriptVars>>

NextSplit ==
    \/ ReceiveDocuments
    \/ SplitDocuments

SpecSplit == Init /\ [][NextSplit]_vars

\* ---------------------------------------------- split_documents: claims
\* C11 as stated: no chunk is longer than the maximum size; input texts
\* that are not empty and shorter than the maximum size yield exactly one
\* chunk each; an empty input yields an empty output.
C11_ShortTextOneChunk ==
    splitPc = "done" =>
        /\ \A i \in 1..Len(chunks) : Len(chunks[i]) <= chunk_size
        /\ (\A i \in 1..Len(documents) :
                0 < Len(documents[i]) /\ Len(documents[i]) < chunk_size)
              => Len(chunks) = Len(documents)
        /\ documents = <<>> => chunks = <<>>

\* C11 amended: no chunk is longer than the maximum size; an input text
\* shorter than the maximum size yields exactly one chunk (the text without
\* its leading and trailing whitespace) when it holds a character that is
\* not whitespace, and no chunk when it is blank; an empty input yields an
\* empty output.
C11_ChunksBounded ==
    splitPc = "done" =>
        /\ \A i \in 1..Len(chunks) : Len(chunks[i]) <= chunk_size
        /\ (\A i \in 1..Len(documents) : Len(documents[i]) < chunk_size)
              => chunks = SelectSeq([i \in 1..Len(documents) |-> strip(documents[i])],
                                    LAMBDA t : t # <<>>)
        /\ documents = <<>> => chunks = <<>>

\* A text longer than the maximum size was split into several chunks, the
\* longest of them as long as the maximum, and the short text after it gave
\* one chunk more.
C11_Witness ==
    /\ splitPc = "done"
    /\ Len(documents) = 2
    /\ Len(documents[1]) > chunk_size
    /\ documents[2] = <<"a">>
    /\ Len(chunks) >= 3
    /\ \E i \in 1..Len(chunks) : Len(chunks[i]) = chunk_size
    /\ chunks[Len(chunks)] = <<"a">>
\* ---------------------------------------------------------- model_test_2
\* most chunks the chat stream delivers
MaxStream == 3
\* most runs of the script that are followed
MaxRuns == 3

\* A call to the Ollama server raised in statement stmt: nothing catches
\* it, the script ends there and the statements after it are not executed.
ScRaise(stmt) ==
    /\ scEnded' = stmt
    /\ scPc' = "end"

\* models_lists = olm.list(); pp.pprint(models_lists)
ScList ==
    /\ scPc = "list"
    /\ \/ scPc' = "chat" /\ UNCHANGED scEnded
       \/ ScRaise("list")
    /\ UNCHANGED <<models, scLog, streamed, runs>>
    /\ UNCHANGED <<storeVars, shellVars, splitVars>>

\* res = olm.chat(model=MODEL, ..., stream=True): the iterator is returned,
\* the request is sent when it is first advanced.
ScChat ==
    /\ scPc = "chat"
    /\ scPc' = "stream"
    /\ UNCHANGED <<models, scEnded, scLog, streamed, runs>>
    /\ UNCHANGED <<storeVars, shellVars, splitVars>>

\* for chunk in res: print(chunk["message"]["content"]): the next chunk is
\* printed, the stream ends, or the request raises.
ScStream ==
    /\ scPc = "stream"
    /\ \/ /\ MODEL \in models /\ streamed < MaxStream
          /\ streamed' = streamed + 1
          /\ UNCHANGED <<scPc, scEnded>>
       \/ /\ MODEL \in models
          /\ scPc' = "generate"
          /\ UNCHANGED <<scEnded, streamed>>
       \/ ScRaise("chat") /\ UNCHANGED streamed
    /\ UNCHANGED <<models, scLog, runs>>
    /\ UNCHANGED <<storeVars, shellVars, splitVars>>

\* res = olm.generate(model=MODEL, prompt=PROMPT_MATH); print
ScGenerate ==
    /\ scPc = "generate"
    /\ \/ MODEL \in models /\ scPc' = "show" /\ UNCHANGED scEnded
       \/ ScRaise("generate")
    /\ UNCHANGED <<models, scLog, streamed, runs>>
    /\ UNCHANGED <<storeVars, shellVars, splitVars>>

\* model_details = olm.show(MODEL); print(model_details)
ScShow ==
    /\ scPc = "show"
    /\ \/ MODEL \in models /\ scPc' = "create" /\ UNCHANGED scEnded
       \/ ScRaise("show")
    /\ UNCHANGED <<models, scLog, streamed, runs>>
    /\ UNCHANGED <<storeVars, shellVars, splitVars>>

\* olm.create(model=CUSTOM_MODEL_NAME, from_=MODEL, system=..., parameters=...):
\* the server stores the custom model (replacing one of that name), or the
\* call raises and stores nothing.
ScCreate ==
    /\ scPc = "create"
    /\ \/ /\ MODEL \in models
          /\ models' = models \cup {CUSTOM_MODEL_NAME}
          /\ scLog' = Append(scLog, "create")
          /\ scPc' = "generate_custom"
          /\ UNCHANGED scEnded
       \/ ScRaise("create") /\ UNCHANGED <<models, scLog>>
    /\ UNCHANGED <<streamed, runs>>
    /\ UNCHANGED <<storeVars, shellVars, splitVars>>

\* res = olm.generate(model=CUSTOM_MODEL_NAME, prompt=...); print(res["response"])
ScGenerateCustom ==
    /\ scPc = "generate_custom"
    /\ \/ /\ CUSTOM_MODEL_NAME \in models
          /\ scLog' = Append(scLog, "generate")
          /\ scPc' = "delete"
          /\ UNCHANGED scEnded
       \/ ScRaise("generate_custom") /\ UNCHANGED scLog
    /\ UNCHANGED <<models, streamed, runs>>
    /\ UNCHANGED <<storeVars, shellVars, splitVars>>

\* olm.delete(CUSTOM_MODEL_NAME); print("... deleted successfully.")
ScDelete ==
    /\ scPc = "delete"
    /\ \/ /\ CUSTOM_MODEL_NAME \in models
          /\ models' = models \ {CUSTOM_MODEL_NAME}
          /\ scLog' = Append(scLog, "delete")
          /\ scEnded' = "completed"
          /\ scPc' = "end"
       \/ ScRaise("delete") /\ UNCHANGED <<models, scLog>>
    /\ UNCHANGED <<streamed, runs>>
    /\ UNCHANGED <<storeVars, shellVars, splitVars>>

\* python model_test_2.py is run again against the same server.
ScRunAgain ==
    /\ scPc = "end"
    /\ runs < MaxRuns
    /\ runs' = runs + 1
    /\ scPc' = "list"
    /\ scEnded' = NoResult
    /\ scLog' = <<>>
    /\ streamed' = 0
    /\ UNCHANGED models
    /\ UNCHANGED <<storeVars, shellVars, splitVars>>

NextScript ==
    \/ ScList
    \/ ScChat
    \/ ScStream
    \/ ScGenerate
    \/ ScShow
    \/ ScCreate
    \/ ScGenerateCustom
    \/ ScDelete
    \/ ScRunAgain

SpecScript == Init /\ [][NextScript]_vars

\* ------------------------------------------------- model_test_2: claims
\* C17 as stated: the script does not leave the custom model persistent: in
\* every run that created it, the model was created before it was used for
\* generation, and it has been deleted again when the run has ended, whether
\* the generation with the custom model succeeded or raised.
C17_CustomModelNotPersistent ==
    /\ Len(scLog) >= 1 => scLog[1] = "create"
    /\ (scPc = "end" /\ Len(scLog) >= 1 /\ scEnded # "delete")
          => /\ CUSTOM_MODEL_NAME \notin models
             /\ scLog[Len(scLog)] = "delete"
====
